---------------------------- MODULE Spec2Model ----------------------------
(***************************************************************************)
(* Model of the numeric engine of the correlation panel                    *)
(* (src/utils/correlation.ts): slidingCorrelation, smoothSeries,           *)
(* performLinearRegression and computeCointegrationZScore, and of the view  *)
(* state of the panel itself (src/CorrelationPanel.tsx): the zoom range,   *)
(* the drag selection and the handlers of the mouse and the zoom buttons.  *)
(*                                                                         *)
(* A JavaScript number is an IEEE-754 binary floating-point value.  The    *)
(* model keeps the IEEE rules (round to nearest, ties to even, gradual     *)
(* underflow, overflow to Infinity, NaN propagation) and shrinks only the  *)
(* format: Prec significand bits instead of 53, exponents QMin..EMax       *)
(* instead of -1074..1023.  +0 and -0 are one value: the code never        *)
(* divides by a zero it has not compared with === 0 first, except in       *)
(* cov / (stdA * stdB), where the divisor is a product of square roots     *)
(* and so never -0.                                                        *)
(*                                                                         *)
(* A slot of a sequence (number | null) is a record [k, m, e]:             *)
(*   k = "fin"   the finite number m * 2^e (m odd, or m = 0 and e = 0)     *)
(*   k = "nan", "pinf", "ninf"   NaN, +Infinity, -Infinity                 *)
(*   k = "null"  null, the undefined marker                                *)
(***************************************************************************)
EXTENDS Integers, Sequences, FiniteSets, TLC

VARIABLES call, seriesA, seriesB, window, values, radius, result, returned,
          viewRange, selection, isSelecting, hovering, timestampsLength

\* the arguments and the result of a call of the numeric engine
callVars == <<call, seriesA, seriesB, window, values, radius, result, returned>>

\* the state of the panel: viewRange, selection and isSelecting are its
\* useState cells, hovering is hoverInfo !== null, timestampsLength is
\* timestamps.length of the data shown
panelVars == <<viewRange, selection, isSelecting, hovering, timestampsLength>>

vars == <<callVars, panelVars>>

(***************************************************************************)
(* The floating-point format.                                              *)
(***************************************************************************)
\* significand bits (53 in binary64)
Prec == 5
\* largest exponent: every finite number is below 2^(EMax+1) (1023 in binary64)
EMax == 15
\* the smallest positive number is 2^(-QMinNeg) (1074 in binary64)
QMinNeg == 40

QMin == 0 - QMinNeg

Pow2(n) == 2 ^ n

Abs(x) == IF x < 0 THEN 0 - x ELSE x

Min(x, y) == IF x < y THEN x ELSE y

Max(x, y) == IF x < y THEN y ELSE x

RECURSIVE BitLen(_)
\* number of bits of the natural number n (0 for 0)
BitLen(n) == IF n = 0 THEN 0 ELSE 1 + BitLen(n \div 2)

RECURSIVE IsqrtFrom(_, _, _)
\* binary search of floor(sqrt(n)) in lo..hi
IsqrtFrom(n, lo, hi) ==
  IF lo = hi THEN lo
  ELSE LET mid == (lo + hi + 1) \div 2
       IN  IF mid * mid <= n THEN IsqrtFrom(n, mid, hi)
           ELSE IsqrtFrom(n, lo, mid - 1)

Isqrt(n) == IsqrtFrom(n, 0, Pow2((BitLen(n) + 1) \div 2))

Null == [k |-> "null", m |-> 0, e |-> 0]
NaN == [k |-> "nan", m |-> 0, e |-> 0]
PInf == [k |-> "pinf", m |-> 0, e |-> 0]
NInf == [k |-> "ninf", m |-> 0, e |-> 0]
Zero == [k |-> "fin", m |-> 0, e |-> 0]

Inf(sign) == IF sign < 0 THEN NInf ELSE PInf

RECURSIVE Canon(_, _)
\* the finite number m * 2^e in its one representation
Canon(m, e) ==
  IF m = 0 THEN Zero
  ELSE IF m % 2 = 0 THEN Canon(m \div 2, e + 1)
  ELSE [k |-> "fin", m |-> m, e |-> e]

\* sign * n * 2^e (n a natural number) rounded to the format: to nearest, ties
\* to even, at Prec bits or at the quantum 2^QMin when that is coarser;
\* Infinity from 2^(EMax+1) on
Round(sign, n, e) ==
  IF n = 0 THEN Zero
  ELSE
    LET bl == BitLen(n)
        k == Max(bl - Prec, QMin - e)
        q == IF k <= 0 THEN n ELSE IF k > bl THEN 0 ELSE n \div Pow2(k)
        r == IF k <= 0 THEN 0 ELSE IF k > bl THEN 0 ELSE n % Pow2(k)
        half == IF k <= 0 \/ k > bl THEN 1 ELSE Pow2(k - 1)
        up == r > half \/ (r = half /\ q % 2 = 1)
        q2 == IF up THEN q + 1 ELSE q
        e2 == IF k <= 0 THEN e ELSE e + k
    IN  IF q2 = 0 THEN Zero
        ELSE IF BitLen(q2) + e2 > EMax + 1 THEN Inf(sign)
        ELSE Canon(sign * q2, e2)

FromInt(i) == Round(IF i < 0 THEN -1 ELSE 1, Abs(i), 0)

IsNum(x) == x.k # "null"
IsFin(x) == x.k = "fin"
IsNaN(x) == x.k = "nan"
IsInf(x) == x.k \in {"pinf", "ninf"}

Sign(x) ==
  CASE x.k = "pinf" -> 1
    [] x.k = "ninf" -> -1
    [] x.k = "fin" -> (IF x.m < 0 THEN -1 ELSE IF x.m > 0 THEN 1 ELSE 0)
    [] OTHER -> 0

FNeg(x) ==
  CASE x.k = "pinf" -> NInf
    [] x.k = "ninf" -> PInf
    [] x.k = "fin" -> [x EXCEPT !.m = 0 - x.m]
    [] OTHER -> x

\* a + b
FAdd(a, b) ==
  IF IsNaN(a) \/ IsNaN(b) THEN NaN
  ELSE IF IsInf(a) /\ IsInf(b) THEN (IF a = b THEN a ELSE NaN)
  ELSE IF IsInf(a) THEN a
  ELSE IF IsInf(b) THEN b
  ELSE IF a.m = 0 THEN b
  ELSE IF b.m = 0 THEN a
  ELSE
    LET hi == IF a.e >= b.e THEN a ELSE b
        lo == IF a.e >= b.e THEN b ELSE a
        d == hi.e - lo.e
    IN  IF d > 2 * Prec + 2 THEN hi
        ELSE LET n == hi.m * Pow2(d) + lo.m
             IN  Round(IF n < 0 THEN -1 ELSE 1, Abs(n), lo.e)

\* a - b
FSub(a, b) == FAdd(a, FNeg(b))

\* a * b
FMul(a, b) ==
  IF IsNaN(a) \/ IsNaN(b) THEN NaN
  ELSE IF IsInf(a) \/ IsInf(b)
    THEN (IF Sign(a) * Sign(b) = 0 THEN NaN ELSE Inf(Sign(a) * Sign(b)))
  ELSE Round(Sign(a) * Sign(b), Abs(a.m) * Abs(b.m), a.e + b.e)

\* a / b
FDiv(a, b) ==
  IF IsNaN(a) \/ IsNaN(b) THEN NaN
  ELSE IF IsInf(a) THEN (IF IsInf(b) THEN NaN
                         ELSE Inf(Sign(a) * (IF Sign(b) < 0 THEN -1 ELSE 1)))
  ELSE IF IsInf(b) THEN Zero
  ELSE IF b.m = 0 THEN (IF a.m = 0 THEN NaN ELSE Inf(Sign(a)))
  ELSE IF a.m = 0 THEN Zero
  ELSE
    LET s == Prec + 2 + BitLen(Abs(b.m))
        num == Abs(a.m) * Pow2(s)
        q == num \div Abs(b.m)
        sticky == IF num % Abs(b.m) = 0 THEN 0 ELSE 1
    IN  Round(Sign(a) * Sign(b), 2 * q + sticky, a.e - b.e - s - 1)

\* Math.sqrt(a)
FSqrt(a) ==
  IF IsNaN(a) \/ Sign(a) < 0 THEN NaN
  ELSE IF IsInf(a) THEN a
  ELSE IF a.m = 0 THEN Zero
  ELSE
    LET m1 == IF a.e % 2 = 0 THEN a.m ELSE 2 * a.m
        e1 == IF a.e % 2 = 0 THEN a.e ELSE a.e - 1
        n == m1 * Pow2(2 * (Prec + 1))
        r == Isqrt(n)
        sticky == IF r * r = n THEN 0 ELSE 1
    IN  Round(1, 2 * r + sticky, (e1 \div 2) - (Prec + 1) - 1)

\* Math.pow(a, 2)
FSquare(a) == FMul(a, a)

\* a < b
FLt(a, b) ==
  IF IsNaN(a) \/ IsNaN(b) THEN FALSE
  ELSE IF a = b THEN FALSE
  ELSE IF a.k = "ninf" \/ b.k = "pinf" THEN TRUE
  ELSE IF a.k = "pinf" \/ b.k = "ninf" THEN FALSE
  ELSE Sign(FSub(a, b)) < 0

\* a <= b
FLe(a, b) == ~IsNaN(a) /\ ~IsNaN(b) /\ (a = b \/ FLt(a, b))

\* Math.max(a, b)
FMax(a, b) ==
  IF IsNaN(a) \/ IsNaN(b) THEN NaN
  ELSE IF FLt(a, b) THEN b ELSE a

\* Math.floor(a)
FFloor(a) ==
  IF ~IsFin(a) \/ a.e >= 0 THEN a
  ELSE IF 0 - a.e >= Prec THEN (IF a.m < 0 THEN FromInt(-1) ELSE Zero)
  ELSE FromInt(a.m \div Pow2(0 - a.e))

\* ToIntegerOrInfinity of a finite number: truncation towards zero
TruncToInt(x) ==
  IF x.e >= 0 THEN x.m * Pow2(x.e)
  ELSE IF 0 - x.e >= Prec THEN 0
  ELSE Sign(x) * (Abs(x.m) \div Pow2(0 - x.e))

\* the position Array.prototype.slice makes of an argument, in 0..len
RelIndex(x, len) ==
  CASE x.k = "nan" -> 0
    [] x.k = "ninf" -> 0
    [] x.k = "pinf" -> len
    [] OTHER -> LET t == TruncToInt(x)
                IN  IF t < 0 THEN Max(len + t, 0) ELSE Min(t, len)

\* s.slice(start, end), indices counted from 0
Slice(s, start, end) ==
  SubSeq(s, RelIndex(start, Len(s)) + 1, RelIndex(end, Len(s)))

RECURSIVE SumFrom(_, _, _)
\* s.reduce((a, b) => a + b, acc) over the elements from position idx on
SumFrom(s, idx, acc) ==
  IF idx > Len(s) THEN acc ELSE SumFrom(s, idx + 1, FAdd(acc, s[idx]))

\* s.reduce((a, b) => a + b, 0)
Sum(s) == SumFrom(s, 1, Zero)

\* element idx (from 0) of s, undefined (NaN in arithmetic) past its end
At(s, idx) == IF idx + 1 \in DOMAIN s THEN s[idx + 1] ELSE NaN

(***************************************************************************)
(* slidingCorrelation                                                      *)
(***************************************************************************)
\* const safeWindow = Math.max(Math.floor(window), 1)
safeWindow(w) == FMax(FFloor(w), FromInt(1))

\* const length = Math.min(seriesA.length, seriesB.length)
length(A, B) == Min(Len(A), Len(B))

\* slice.reduce((a, b) => a + b, 0) / safeWindow
sliceMean(slice, W) == FDiv(Sum(slice), W)

\* sliceA.reduce((acc, aVal, idx) => acc + (aVal - meanA) * (sliceB[idx] - meanB), 0) / safeWindow
cov(sliceA, sliceB, meanA, meanB, W) ==
  FDiv(Sum([idx \in DOMAIN sliceA |->
              FMul(FSub(sliceA[idx], meanA), FSub(At(sliceB, idx - 1), meanB))]), W)

\* std with the divisor safeWindow - 1 of a sample standard deviation
stdSample(slice, mean, W) ==
  FSqrt(FDiv(Sum([idx \in DOMAIN slice |-> FSquare(FSub(slice[idx], mean))]),
             FSub(W, FromInt(1))))

\* Math.sqrt(slice.reduce((acc, v) => acc + Math.pow(v - mean, 2), 0) / safeWindow)
std(slice, mean, W) ==
  FSqrt(FDiv(Sum([idx \in DOMAIN slice |-> FSquare(FSub(slice[idx], mean))]), W))

\* correlationAt with the slices slice(i - safeWindow + 1, i + 1), which hold
\* the current sample
correlationAtWithCurrent(A, B, W, i) ==
  IF FLt(FromInt(i), W) THEN Null
  ELSE
    LET sliceA == Slice(A, FSub(FromInt(i + 1), W), FromInt(i + 1))
        sliceB == Slice(B, FSub(FromInt(i + 1), W), FromInt(i + 1))
        meanA == sliceMean(sliceA, W)
        meanB == sliceMean(sliceB, W)
        stdA == std(sliceA, meanA, W)
        stdB == std(sliceB, meanB, W)
    IN  IF stdA = Zero \/ stdB = Zero THEN Null
        ELSE FDiv(cov(sliceA, sliceB, meanA, meanB, W), FMul(stdA, stdB))

\* correlationAt without the guard i < safeWindow
correlationAtUnguarded(A, B, W, i) ==
  LET sliceA == Slice(A, FSub(FromInt(i), W), FromInt(i))
      sliceB == Slice(B, FSub(FromInt(i), W), FromInt(i))
      meanA == sliceMean(sliceA, W)
      meanB == sliceMean(sliceB, W)
      stdA == std(sliceA, meanA, W)
      stdB == std(sliceB, meanB, W)
  IN  IF stdA = Zero \/ stdB = Zero THEN Null
      ELSE FDiv(cov(sliceA, sliceB, meanA, meanB, W), FMul(stdA, stdB))

\* the body of the loop for the index i (from 0): result[i]
correlationAt(A, B, W, i) ==
  IF FLt(FromInt(i), W) THEN Null
  ELSE
    LET sliceA == Slice(A, FSub(FromInt(i), W), FromInt(i))
        sliceB == Slice(B, FSub(FromInt(i), W), FromInt(i))
        meanA == sliceMean(sliceA, W)
        meanB == sliceMean(sliceB, W)
        stdA == std(sliceA, meanA, W)
        stdB == std(sliceB, meanB, W)
    IN  IF stdA = Zero \/ stdB = Zero THEN Null
        ELSE FDiv(cov(sliceA, sliceB, meanA, meanB, W), FMul(stdA, stdB))

\* slidingCorrelation sized by seriesA alone
slidingCorrelationOverA(A, B, w) ==
  [p \in 1..Len(A) |-> correlationAt(A, B, safeWindow(w), p - 1)]

slidingCorrelation(A, B, w) ==
  [p \in 1..length(A, B) |-> correlationAt(A, B, safeWindow(w), p - 1)]

(***************************************************************************)
(* smoothSeries                                                            *)
(***************************************************************************)
\* windowRadius without the clamp Math.max(..., 0)
windowRadiusUnclamped(r) == FFloor(r)

\* const windowRadius = Math.max(Math.floor(radius), 0)
windowRadius(r) == FMax(FFloor(r), Zero)

RECURSIVE smoothLoop(_, _, _, _, _, _)
\* for (let offset = -windowRadius; offset <= windowRadius; offset++) from the
\* given offset on, for a finite windowRadius R: the final sum and count
smoothLoop(vals, idx, offset, R, sum, count) ==
  IF offset > R THEN [sum |-> sum, count |-> count]
  ELSE
    LET neighborIndex == idx + offset
    IN  IF neighborIndex < 0 \/ neighborIndex >= Len(vals)
          THEN smoothLoop(vals, idx, offset + 1, R, sum, count)
        ELSE
          LET neighborValue == vals[neighborIndex + 1]
          IN  IF neighborValue = Null \/ ~IsFin(neighborValue)
                THEN smoothLoop(vals, idx, offset + 1, R, sum, count)
              ELSE smoothLoop(vals, idx, offset + 1, R,
                              FAdd(sum, neighborValue), count + 1)

\* smoothAt without the test value === null
smoothAtAnyCentre(vals, wr, idx) ==
  LET acc == IF IsNaN(wr) THEN [sum |-> Zero, count |-> 0]
             ELSE smoothLoop(vals, idx, 0 - TruncToInt(wr), TruncToInt(wr), Zero, 0)
  IN  IF acc.count > 0 THEN FDiv(acc.sum, FromInt(acc.count)) ELSE Null

\* smoothAt returning null unless count > 1
smoothAtNeedsTwo(vals, wr, idx) ==
  IF vals[idx + 1] = Null THEN Null
  ELSE
    LET acc == IF IsNaN(wr) THEN [sum |-> Zero, count |-> 0]
               ELSE smoothLoop(vals, idx, 0 - TruncToInt(wr), TruncToInt(wr), Zero, 0)
    IN  IF acc.count > 1 THEN FDiv(acc.sum, FromInt(acc.count)) ELSE Null

\* smoothAt with the loop condition offset < windowRadius
smoothAtShortWindow(vals, wr, idx) ==
  IF vals[idx + 1] = Null THEN Null
  ELSE
    LET acc == IF IsNaN(wr) THEN [sum |-> Zero, count |-> 0]
               ELSE smoothLoop(vals, idx, 0 - TruncToInt(wr), TruncToInt(wr) - 1, Zero, 0)
    IN  IF acc.count > 0 THEN FDiv(acc.sum, FromInt(acc.count)) ELSE Null

\* the callback of values.map for the index idx (from 0); with windowRadius
\* NaN the loop's condition is false at once
smoothAt(vals, wr, idx) ==
  IF vals[idx + 1] = Null THEN Null
  ELSE
    LET acc == IF IsNaN(wr) THEN [sum |-> Zero, count |-> 0]
               ELSE smoothLoop(vals, idx, 0 - TruncToInt(wr), TruncToInt(wr), Zero, 0)
    IN  IF acc.count > 0 THEN FDiv(acc.sum, FromInt(acc.count)) ELSE Null

\* with windowRadius Infinity, offset++ leaves offset at -Infinity and the loop
\* of the first value that is not null never ends
smoothSeriesReturns(vals, r) ==
  ~(windowRadius(r) = PInf /\ \E p \in DOMAIN vals : vals[p] # Null)

\* the value returned (when the call returns)
smoothSeries(vals, r) ==
  IF windowRadius(r) = Zero THEN vals
  ELSE IF windowRadius(r) = PInf THEN [p \in DOMAIN vals |-> Null]
  ELSE [p \in DOMAIN vals |-> smoothAt(vals, windowRadius(r), p - 1)]

(***************************************************************************)
(* computeCointegrationZScore                                              *)
(***************************************************************************)
\* typeof value === 'number' && Number.isFinite(value)
isFiniteNumber(value) == IsFin(value)

\* the positions (from 1) of the pairs kept by the first loop
pairs(A, B) ==
  SelectSeq([p \in 1..length(A, B) |-> p],
            LAMBDA p : isFiniteNumber(A[p]) /\ isFiniteNumber(B[p]))

\* performLinearRegression with n the length of the overlapping range: the
\* pairs that are not finite are left out of the sums but counted
performLinearRegressionMasked(A, B) ==
  LET ps == pairs(A, B)
  IN  IF Len(ps) < 2 THEN [alpha |-> Zero, beta |-> Zero, valid |-> FALSE]
      ELSE
        LET n == FromInt(length(A, B))
            sumX == Sum([j \in DOMAIN ps |-> B[ps[j]]])
            sumY == Sum([j \in DOMAIN ps |-> A[ps[j]]])
            sumXY == Sum([j \in DOMAIN ps |-> FMul(A[ps[j]], B[ps[j]])])
            sumXX == Sum([j \in DOMAIN ps |-> FMul(B[ps[j]], B[ps[j]])])
            denominator == FSub(FMul(n, sumXX), FMul(sumX, sumX))
        IN  IF denominator = Zero
              THEN [alpha |-> FDiv(sumY, n), beta |-> Zero, valid |-> TRUE]
            ELSE
              LET beta == FDiv(FSub(FMul(n, sumXY), FMul(sumX, sumY)), denominator)
                  alpha == FDiv(FSub(sumY, FMul(beta, sumX)), n)
              IN  [alpha |-> alpha, beta |-> beta, valid |-> TRUE]

\* performLinearRegression with the test pairs.length < 1
performLinearRegressionNeedsOne(A, B) ==
  LET ps == pairs(A, B)
  IN  IF Len(ps) < 1 THEN [alpha |-> Zero, beta |-> Zero, valid |-> FALSE]
      ELSE
        LET n == FromInt(Len(ps))
            sumX == Sum([j \in DOMAIN ps |-> B[ps[j]]])
            sumY == Sum([j \in DOMAIN ps |-> A[ps[j]]])
            sumXY == Sum([j \in DOMAIN ps |-> FMul(A[ps[j]], B[ps[j]])])
            sumXX == Sum([j \in DOMAIN ps |-> FMul(B[ps[j]], B[ps[j]])])
            denominator == FSub(FMul(n, sumXX), FMul(sumX, sumX))
        IN  IF denominator = Zero
              THEN [alpha |-> FDiv(sumY, n), beta |-> Zero, valid |-> TRUE]
            ELSE
              LET beta == FDiv(FSub(FMul(n, sumXY), FMul(sumX, sumY)), denominator)
                  alpha == FDiv(FSub(sumY, FMul(beta, sumX)), n)
              IN  [alpha |-> alpha, beta |-> beta, valid |-> TRUE]

performLinearRegression(A, B) ==
  LET ps == pairs(A, B)
  IN  IF Len(ps) < 2 THEN [alpha |-> Zero, beta |-> Zero, valid |-> FALSE]
      ELSE
        LET n == FromInt(Len(ps))
            sumX == Sum([j \in DOMAIN ps |-> B[ps[j]]])
            sumY == Sum([j \in DOMAIN ps |-> A[ps[j]]])
            sumXY == Sum([j \in DOMAIN ps |-> FMul(A[ps[j]], B[ps[j]])])
            sumXX == Sum([j \in DOMAIN ps |-> FMul(B[ps[j]], B[ps[j]])])
            denominator == FSub(FMul(n, sumXX), FMul(sumX, sumX))
        IN  IF denominator = Zero
              THEN [alpha |-> FDiv(sumY, n), beta |-> Zero, valid |-> TRUE]
            ELSE
              LET beta == FDiv(FSub(FMul(n, sumXY), FMul(sumX, sumY)), denominator)
                  alpha == FDiv(FSub(sumY, FMul(beta, sumX)), n)
              IN  [alpha |-> alpha, beta |-> beta, valid |-> TRUE]

\* the residuals array after the second loop, for a valid regression
residuals(A, B, regression) ==
  [p \in 1..length(A, B) |->
     IF ~isFiniteNumber(A[p]) \/ ~isFiniteNumber(B[p]) THEN Null
     ELSE FSub(A[p], FAdd(regression.alpha, FMul(regression.beta, B[p])))]

\* const safeWindow = Math.max(Math.floor(window), 2)
zSafeWindow(w) == FMax(FFloor(w), FromInt(2))

\* zSlice with the loop condition idx < i, which leaves the current index out
zSliceWithoutCurrent(res, start, i) ==
  IF ~IsFin(start) THEN <<>>
  ELSE SelectSeq(SubSeq(res, TruncToInt(start) + 1, i),
                 LAMBDA v : ~(v = Null \/ ~IsFin(v)))

\* the finite residuals at the indices start..i (from 0), in order
zSlice(res, start, i) ==
  IF ~IsFin(start) THEN <<>>
  ELSE SelectSeq(SubSeq(res, TruncToInt(start) + 1, i + 1),
                 LAMBDA v : ~(v = Null \/ ~IsFin(v)))

\* zscoreAt with the test i < safeWindow - 2: the window of the index W-2 is
\* cut short by the start of the sequence
zscoreAtEarly(res, W, i) ==
  LET currentResidual == res[i + 1]
  IN  IF FLt(FromInt(i), FSub(W, FromInt(2))) \/ currentResidual = Null THEN Null
      ELSE
        LET start == FMax(Zero, FSub(FromInt(i), FSub(W, FromInt(1))))
            slice == zSlice(res, start, i)
        IN  IF Len(slice) < 2 THEN Null
            ELSE
              LET mean == FDiv(Sum(slice), FromInt(Len(slice)))
                  variance ==
                    FDiv(Sum([j \in DOMAIN slice |-> FSquare(FSub(slice[j], mean))]),
                         FromInt(Len(slice)))
                  zstd == FSqrt(variance)
              IN  IF ~IsFin(zstd) \/ zstd = Zero THEN Null
                  ELSE FDiv(FSub(currentResidual, mean), zstd)

\* zscoreAt without the test i < safeWindow - 1
zscoreAtNoWarmUp(res, W, i) ==
  LET currentResidual == res[i + 1]
  IN  IF currentResidual = Null THEN Null
      ELSE
        LET start == FMax(Zero, FSub(FromInt(i), FSub(W, FromInt(1))))
            slice == zSlice(res, start, i)
        IN  IF Len(slice) < 2 THEN Null
            ELSE
              LET mean == FDiv(Sum(slice), FromInt(Len(slice)))
                  variance ==
                    FDiv(Sum([j \in DOMAIN slice |-> FSquare(FSub(slice[j], mean))]),
                         FromInt(Len(slice)))
                  zstd == FSqrt(variance)
              IN  IF ~IsFin(zstd) \/ zstd = Zero THEN Null
                  ELSE FDiv(FSub(currentResidual, mean), zstd)

\* the body of the last loop for the index i (from 0): zscores[i]
zscoreAt(res, W, i) ==
  LET currentResidual == res[i + 1]
  IN  IF FLt(FromInt(i), FSub(W, FromInt(1))) \/ currentResidual = Null THEN Null
      ELSE
        LET start == FMax(Zero, FSub(FromInt(i), FSub(W, FromInt(1))))
            slice == zSlice(res, start, i)
        IN  IF Len(slice) < 2 THEN Null
            ELSE
              LET mean == FDiv(Sum(slice), FromInt(Len(slice)))
                  variance ==
                    FDiv(Sum([j \in DOMAIN slice |-> FSquare(FSub(slice[j], mean))]),
                         FromInt(Len(slice)))
                  zstd == FSqrt(variance)
              IN  IF ~IsFin(zstd) \/ zstd = Zero THEN Null
                  ELSE FDiv(FSub(currentResidual, mean), zstd)

computeCointegrationZScore(A, B, w) ==
  LET regression == performLinearRegression(A, B)
  IN  IF length(A, B) = 0 \/ ~regression.valid
        THEN [p \in 1..length(A, B) |-> Null]
      ELSE [p \in 1..length(A, B) |->
              zscoreAt(residuals(A, B, regression), zSafeWindow(w), p - 1)]

(***************************************************************************)
(* The view state of CorrelationPanel.  A handler runs on the state of the *)
(* latest render: React renders again after each event before the next     *)
(* one is handled.                                                         *)
(***************************************************************************)
\* Math.min(a, b)
FMin(a, b) ==
  IF IsNaN(a) \/ IsNaN(b) THEN NaN
  ELSE IF FLt(b, a) THEN b ELSE a

\* Math.abs(a)
FAbs(a) == IF a.k = "ninf" THEN PInf ELSE IF IsFin(a) /\ a.m < 0 THEN FNeg(a) ELSE a

\* Number.EPSILON: the distance from 1 to the next number
EPSILON == Canon(1, 1 - Prec)

clamp(value, min, max) == FMin(FMax(value, min), max)

\* the literals 0.6, 1.5, 1.2 and 0.001
ZoomInFactor == FDiv(FromInt(3), FromInt(5))
ZoomOutFactor == FDiv(FromInt(3), FromInt(2))
ZoomInMargin == FDiv(FromInt(6), FromInt(5))
Thousandth == Round(1, Pow2(20) \div 1000, -20)

minViewSpan(len) ==
  IF len # 0 THEN FDiv(FromInt(1), FMax(FromInt(len), FromInt(1))) ELSE Thousandth

\* chartWidth, from the width the panel is given
chartWidth(width) == FMax(width, FromInt(1))

\* no selection
NoSelection(width) == [start |-> Null, end |-> Null, width |-> width]

selectionActive(sel) == sel.start # Null /\ sel.end # Null

\* x and localWidth of a pointer event at the offset clientX - bounds.left in
\* an element bounds.width wide
extractPointerData(offset, boundsWidth) ==
  LET localWidth == FMax(boundsWidth, FromInt(1))
  IN  [x |-> clamp(offset, Zero, localWidth), localWidth |-> localWidth]

\* finishSelection that zooms whatever the extent of the drag
finishSelectionAnyExtent(view, sel, width) ==
  IF ~selectionActive(sel)
    THEN [viewRange |-> view, selection |-> NoSelection(chartWidth(width))]
  ELSE
    LET baseWidth == FMax(sel.width, FromInt(1))
        startRatio == FDiv(FMin(sel.start, sel.end), baseWidth)
        endRatio == FDiv(FMax(sel.start, sel.end), baseWidth)
        currentSpan == FMax(FSub(view[2], view[1]), EPSILON)
        newStart == clamp(FAdd(view[1], FMul(startRatio, currentSpan)), Zero, FromInt(1))
        newEnd == clamp(FAdd(view[1], FMul(endRatio, currentSpan)), Zero, FromInt(1))
    IN  [viewRange |-> <<newStart, newEnd>>, selection |-> NoSelection(baseWidth)]

\* the view range and the selection finishSelection sets (it sets isSelecting
\* to false in every branch)
finishSelection(view, sel, width) ==
  IF ~selectionActive(sel)
    THEN [viewRange |-> view, selection |-> NoSelection(chartWidth(width))]
  ELSE
    LET span == FAbs(FSub(sel.end, sel.start))
    IN  IF FLt(span, FromInt(4))
          THEN [viewRange |-> view, selection |-> NoSelection(chartWidth(width))]
        ELSE
          LET baseWidth == FMax(sel.width, FromInt(1))
              startRatio == FDiv(FMin(sel.start, sel.end), baseWidth)
              endRatio == FDiv(FMax(sel.start, sel.end), baseWidth)
              currentSpan == FMax(FSub(view[2], view[1]), EPSILON)
              newStart ==
                clamp(FAdd(view[1], FMul(startRatio, currentSpan)), Zero, FromInt(1))
              newEnd ==
                clamp(FAdd(view[1], FMul(endRatio, currentSpan)), Zero, FromInt(1))
          IN  [viewRange |-> <<newStart, newEnd>>, selection |-> NoSelection(baseWidth)]

\* the span applyZoom aims at
zoomedSpan(view, zoomFactor, mvs) ==
  clamp(FMul(FMax(FSub(view[2], view[1]), mvs), zoomFactor), mvs, FromInt(1))

\* applyZoom without the two shifts that keep the range inside [0, 1]
applyZoomUnshifted(view, zoomFactor, mvs) ==
  LET newSpan == zoomedSpan(view, zoomFactor, mvs)
      center == FDiv(FAdd(view[1], view[2]), FromInt(2))
  IN  <<FSub(center, FDiv(newSpan, FromInt(2))), FAdd(center, FDiv(newSpan, FromInt(2)))>>

\* applyZoom that shifts a range reaching below 0 without widening it to 1
applyZoomHalfWay(view, zoomFactor, mvs) ==
  LET newSpan == clamp(zoomedSpan(view, zoomFactor, mvs), mvs, FDiv(FromInt(1), FromInt(2)))
      center == FDiv(FAdd(view[1], view[2]), FromInt(2))
      newStart == FSub(center, FDiv(newSpan, FromInt(2)))
      newEnd == FAdd(center, FDiv(newSpan, FromInt(2)))
      shiftedEnd ==
        IF FLt(newStart, Zero) THEN FMin(FromInt(1), FSub(newEnd, newStart)) ELSE newEnd
      shiftedStart == IF FLt(newStart, Zero) THEN Zero ELSE newStart
  IN  IF FLt(FromInt(1), shiftedEnd)
        THEN <<FMax(Zero, FSub(shiftedStart, FSub(shiftedEnd, FromInt(1)))), FromInt(1)>>
      ELSE <<shiftedStart, shiftedEnd>>

\* the view range applyZoom(zoomFactor) sets
applyZoom(view, zoomFactor, mvs) ==
  LET newSpan == zoomedSpan(view, zoomFactor, mvs)
      center == FDiv(FAdd(view[1], view[2]), FromInt(2))
      newStart == FSub(center, FDiv(newSpan, FromInt(2)))
      newEnd == FAdd(center, FDiv(newSpan, FromInt(2)))
      shiftedEnd ==
        IF FLt(newStart, Zero) THEN FMin(FromInt(1), FSub(newEnd, newStart)) ELSE newEnd
      shiftedStart == IF FLt(newStart, Zero) THEN Zero ELSE newStart
  IN  IF FLt(FromInt(1), shiftedEnd)
        THEN <<FMax(Zero, FSub(shiftedStart, FSub(shiftedEnd, FromInt(1)))), FromInt(1)>>
      ELSE <<shiftedStart, shiftedEnd>>

canZoomOut(view) == ~(view[1] = Zero /\ view[2] = FromInt(1))

canZoomIn(view, mvs) == FLt(FMul(mvs, ZoomInMargin), FSub(view[2], view[1]))

\* the widths the panel and its charts have
Widths == {FromInt(9)}

\* the offsets clientX - bounds.left of the pointer events
Offsets == {FromInt(-1), FromInt(4), FromInt(10)}

\* the numbers of timestamps of the data
Lengths == {1, 2}

\* the panel as useState leaves it at the first render
PanelMounted ==
  /\ viewRange = <<Zero, FromInt(1)>>
  /\ \E width \in Widths : selection = NoSelection(FMax(width, FromInt(1)))
  /\ isSelecting = FALSE
  /\ hovering = FALSE
  /\ timestampsLength = 0

\* updateHoverState sets hoverInfo unless there are no timestamps
updateHoverState == hovering' = (hovering \/ timestampsLength # 0)

MouseDown ==
  \E offset \in Offsets, boundsWidth \in Widths :
    LET pointer == extractPointerData(offset, boundsWidth)
    IN  /\ selection' = [start |-> pointer.x, end |-> pointer.x, width |-> pointer.localWidth]
        /\ isSelecting' = TRUE
        /\ updateHoverState
        /\ UNCHANGED <<viewRange, timestampsLength, callVars>>

MouseMove ==
  \E offset \in Offsets, boundsWidth \in Widths :
    LET pointer == extractPointerData(offset, boundsWidth)
    IN  /\ selection' = IF isSelecting
                          THEN [selection EXCEPT !.end = pointer.x,
                                                 !.width = pointer.localWidth]
                        ELSE selection
        /\ updateHoverState
        /\ UNCHANGED <<viewRange, isSelecting, timestampsLength, callVars>>

MouseUp ==
  \E width \in Widths :
    LET finished == finishSelection(viewRange, selection, width)
    IN  /\ isSelecting' = FALSE
        /\ UNCHANGED <<hovering, timestampsLength, callVars>>
        /\ selection' = finished.selection
        /\ viewRange' = finished.viewRange

MouseLeave ==
  \E width \in Widths :
    LET finished == finishSelection(viewRange, selection, width)
    IN  /\ isSelecting' = FALSE
        /\ hovering' = FALSE
        /\ UNCHANGED <<timestampsLength, callVars>>
        /\ selection' = IF isSelecting THEN finished.selection ELSE selection
        /\ viewRange' = IF isSelecting THEN finished.viewRange ELSE viewRange

\* a click of Zoom in, which is disabled unless canZoomIn
ZoomIn ==
  /\ canZoomIn(viewRange, minViewSpan(timestampsLength))
  /\ UNCHANGED <<selection, isSelecting, hovering, timestampsLength, callVars>>
  /\ viewRange' = applyZoom(viewRange, ZoomInFactor, minViewSpan(timestampsLength))

\* a click of Zoom out, which is disabled unless canZoomOut
ZoomOut ==
  /\ canZoomOut(viewRange)
  /\ UNCHANGED <<selection, isSelecting, hovering, timestampsLength, callVars>>
  /\ viewRange' = applyZoom(viewRange, ZoomOutFactor, minViewSpan(timestampsLength))

\* a click of Reset zoom, which is disabled unless canZoomOut
ResetZoom ==
  /\ canZoomOut(viewRange)
  /\ viewRange' = <<Zero, FromInt(1)>>
  /\ \E width \in Widths : selection' = NoSelection(chartWidth(width))
  /\ UNCHANGED <<isSelecting, hovering, timestampsLength, callVars>>

InitPanel ==
  /\ call = "none"
  /\ result = <<>>
  /\ returned = TRUE
  /\ seriesA = <<>>
  /\ seriesB = <<>>
  /\ window = Zero
  /\ values = <<>>
  /\ radius = Zero
  /\ viewRange = <<Zero, FromInt(1)>>
  /\ \E width \in Widths : selection = NoSelection(chartWidth(width))
  /\ isSelecting = FALSE
  /\ hovering = FALSE
  /\ timestampsLength \in Lengths

NextPanel ==
  \/ MouseDown
  \/ MouseMove
  \/ MouseUp
  \/ MouseLeave
  \/ ZoomIn
  \/ ZoomOut
  \/ ResetZoom

SpecPanel == InitPanel /\ [][NextPanel]_vars

\* The user keeps clicking Zoom out for as long as the button is enabled: weak
\* fairness of ZoomOut, written out with the button's own condition
\* (disabled = !canZoomOut) in the place of ENABLED <<ZoomOut>>_vars.
ZoomOutKeepsBeingClicked ==
  []<>(~canZoomOut(viewRange)) \/ []<><<ZoomOut>>_vars

SpecPanelFair == SpecPanel /\ ZoomOutKeepsBeingClicked

(***************************************************************************)
(* The calls the model makes.                                              *)
(***************************************************************************)
\* longest series
MaxLen == 4

\* 0.1
Tenth == FDiv(FromInt(1), FromInt(10))

\* the largest finite number
Huge == Canon(Pow2(Prec) - 1, EMax - Prec + 1)

\* the sample values of a call's two series come from one of these classes
SampleClasses ==
  { {FromInt(-1), FromInt(1)},
    {Tenth, FromInt(1)},
    {NaN, FromInt(1)},
    {PInf, FromInt(1)} }

SeqsUpTo(S, n) == UNION {[1..k -> S] : k \in 0..n}

SeriesPairs ==
  UNION {SeqsUpTo(S, MaxLen) \X SeqsUpTo(S, MaxLen) : S \in SampleClasses}

Windows ==
  {FromInt(-1), Zero, FromInt(2), FDiv(FromInt(5), FromInt(2)), FromInt(3), PInf}

\* longest sequence given to smoothSeries
MaxValues == 5

Half == FDiv(FromInt(1), FromInt(2))

FourFifths == FDiv(FromInt(4), FromInt(5))

\* the slots of a sequence given to smoothSeries come from one of these classes
SlotClasses ==
  { {Null, Half, FourFifths},
    {Null, NaN, FromInt(1)},
    {Null, PInf, Huge} }

ValueSeqs == UNION {SeqsUpTo(S, MaxValues) : S \in SlotClasses}

Radii ==
  {FromInt(-1), Zero, Half, FromInt(1), FDiv(FromInt(3), FromInt(2)), FromInt(2),
   NaN, PInf}

\* the arguments of the calls: two series and a window, or a sequence of slots
\* and a radius
Init ==
  /\ call = "none"
  /\ result = <<>>
  /\ returned = TRUE
  /\ PanelMounted
  /\ \/ /\ \E p \in SeriesPairs : seriesA = p[1] /\ seriesB = p[2]
        /\ window \in Windows
        /\ values = <<>>
        /\ radius = Zero
     \/ /\ seriesA = <<>>
        /\ seriesB = <<>>
        /\ window = Zero
        /\ values \in ValueSeqs
        /\ radius \in Radii

\* SlidingCorrelation taking its windows with splice, which removes them from
\* the arguments
SlidingCorrelationSplicing ==
  /\ call = "none"
  /\ call' = "slidingCorrelation"
  /\ result' = slidingCorrelation(seriesA, seriesB, window)
  /\ returned' = TRUE
  /\ seriesA' = <<>>
  /\ seriesB' = <<>>
  /\ UNCHANGED <<window, values, radius>>
  /\ UNCHANGED panelVars

\* result = slidingCorrelation(seriesA, seriesB, window)
SlidingCorrelation ==
  /\ call = "none"
  /\ call' = "slidingCorrelation"
  /\ result' = slidingCorrelation(seriesA, seriesB, window)
  /\ returned' = TRUE
  /\ UNCHANGED <<seriesA, seriesB, window, values, radius>>
  /\ UNCHANGED panelVars

\* result = computeCointegrationZScore(seriesA, seriesB, window)
ComputeCointegrationZScore ==
  /\ call = "none"
  /\ call' = "computeCointegrationZScore"
  /\ result' = computeCointegrationZScore(seriesA, seriesB, window)
  /\ returned' = TRUE
  /\ UNCHANGED <<seriesA, seriesB, window, values, radius>>
  /\ UNCHANGED panelVars

\* result = smoothSeries(values, radius), when the call returns
SmoothSeries ==
  /\ call = "none"
  /\ call' = "smoothSeries"
  /\ returned' = smoothSeriesReturns(values, radius)
  /\ result' = IF smoothSeriesReturns(values, radius)
                 THEN smoothSeries(values, radius) ELSE <<>>
  /\ UNCHANGED <<seriesA, seriesB, window, values, radius>>
  /\ UNCHANGED panelVars

\* the caller is done with the result: nothing is kept between calls
Discard ==
  /\ call # "none"
  /\ returned
  /\ call' = "none"
  /\ result' = <<>>
  /\ UNCHANGED <<seriesA, seriesB, window, values, radius, returned>>
  /\ UNCHANGED panelVars

Next ==
  \/ SlidingCorrelation
  \/ ComputeCointegrationZScore
  \/ SmoothSeries
  \/ Discard

Spec == Init /\ [][Next]_vars

(***************************************************************************)
(* The calls of computeCointegrationZScore alone, on series that make the  *)
(* regression's cases happen: pairs dropped, the denominator exactly 0,    *)
(* the denominator cancelled to 0 by rounding.                             *)
(***************************************************************************)
\* seriesA takes its samples from the first class, seriesB from the second
ZScoreClasses ==
  { <<{FromInt(-1), FromInt(1)}, {FromInt(-1), FromInt(1)}>>,
    <<{Tenth, FromInt(1)}, {Tenth, FromInt(1)}>>,
    <<{FromInt(7), FromInt(9)}, {FromInt(7), FromInt(9)}>>,
    <<{NaN, FromInt(1)}, {NaN, FromInt(1)}>>,
    <<{PInf, FromInt(1)}, {NInf, FromInt(1)}>>,
    <<{FromInt(-1), FromInt(1)}, {NaN, FromInt(-1), FromInt(1)}>> }

\* longest series of these calls, and of the calls of SpecPure
MaxZLen == 3

ZScorePairs ==
  UNION {SeqsUpTo(c[1], MaxZLen) \X SeqsUpTo(c[2], MaxZLen) : c \in ZScoreClasses}

\* NaN is not below any index: the test i < safeWindow - 1 lets every index by
ZScoreWindows == Windows \cup {NaN}

InitZScore ==
  /\ call = "none"
  /\ result = <<>>
  /\ returned = TRUE
  /\ PanelMounted
  /\ \E p \in ZScorePairs : seriesA = p[1] /\ seriesB = p[2]
  /\ window \in ZScoreWindows
  /\ values = <<>>
  /\ radius = Zero

NextZScore ==
  \/ ComputeCointegrationZScore
  \/ Discard

SpecZScore == InitZScore /\ [][NextZScore]_vars

(***************************************************************************)
(* The calls of slidingCorrelation alone, on series whose samples round    *)
(* (0.1) or are not numbers, and on two series of different classes.       *)
(***************************************************************************)
CorrelationClasses ==
  { <<{Tenth, FromInt(1)}, {Tenth, FromInt(1)}>>,
    <<{FromInt(-1), FromInt(1)}, {NaN, FromInt(1)}>> }

CorrelationPairs ==
  UNION {SeqsUpTo(c[1], MaxLen) \X SeqsUpTo(c[2], MaxLen) : c \in CorrelationClasses}

InitCorrelation ==
  /\ call = "none"
  /\ result = <<>>
  /\ returned = TRUE
  /\ PanelMounted
  /\ \E p \in CorrelationPairs : seriesA = p[1] /\ seriesB = p[2]
  /\ window \in Windows
  /\ values = <<>>
  /\ radius = Zero

NextCorrelation ==
  \/ SlidingCorrelation
  \/ Discard

SpecCorrelation == InitCorrelation /\ [][NextCorrelation]_vars

(***************************************************************************)
(* Calls of the three functions in any order, on the shorter arguments.    *)
(***************************************************************************)
ShortValueSeqs == UNION {SeqsUpTo(S, MaxZLen) : S \in SlotClasses}

InitPure ==
  /\ call = "none"
  /\ result = <<>>
  /\ returned = TRUE
  /\ PanelMounted
  /\ \/ /\ \E p \in ZScorePairs : seriesA = p[1] /\ seriesB = p[2]
        /\ window \in Windows
        /\ values = <<>>
        /\ radius = Zero
     \/ /\ seriesA = <<>>
        /\ seriesB = <<>>
        /\ window = Zero
        /\ values \in ShortValueSeqs
        /\ radius \in Radii

SpecPure == InitPure /\ [][Next]_vars

(***************************************************************************)
(* Properties                                                              *)
(***************************************************************************)
One == FromInt(1)

MinusOne == FromInt(-1)

\* the effective correlation window max(floor(window), 1) of the last call
EffWindow == FMax(FFloor(window), One)

\* x is a number of the closed range [-1, 1]
InUnitRange(x) == FLe(MinusOne, x) /\ FLe(x, One)

\* the samples of s at the positions lo..hi (from 1) are one and the same number
ConstantRun(s, lo, hi) == \A q \in lo..hi : ~IsNaN(s[q]) /\ s[q] = s[lo]

\* some sample of s at the positions lo..hi (from 1) is not a finite number
NonFiniteIn(s, lo, hi) == \E q \in lo..hi : ~IsFin(s[q])

\* the indices (from 0) at which slidingCorrelation scans a full window
ScannedIndices ==
  IF IsFin(EffWindow)
    THEN {i \in 0..(Len(result) - 1) : i >= TruncToInt(EffWindow)}
  ELSE {}

\* every sample of the two series of the last call is a finite number
FiniteSamples ==
  /\ \A p \in DOMAIN seriesA : IsFin(seriesA[p])
  /\ \A p \in DOMAIN seriesB : IsFin(seriesB[p])

\* C1: every element of slidingCorrelation(A, B, window) that is not null lies
\* in the closed range [-1, 1] (stated for series of finite numbers: what
\* non-finite samples do is C7)
C1_RangeClaim ==
  (call = "slidingCorrelation" /\ FiniteSamples) =>
    \A p \in DOMAIN result : result[p] # Null => InUnitRange(result[p])

C3_UndefinedBeforeWindow ==
  call = "slidingCorrelation" =>
    /\ \A p \in DOMAIN result :
         FLt(FromInt(p - 1), EffWindow) => result[p] = Null
    /\ FLe(FromInt(Len(result)), EffWindow) =>
         \A p \in DOMAIN result : result[p] = Null

C3_Witness ==
  /\ call = "slidingCorrelation"
  /\ window = FDiv(FromInt(5), FromInt(2))
  /\ Len(result) = 4
  /\ result[1] = Null
  /\ result[2] = Null
  /\ result[3] # Null
  /\ result[4] # Null

\* C4: slidingCorrelation(S, S, window) holds exactly 1 at every position where
\* it is defined (stated for series of finite numbers)
C4_SelfCorrelationClaim ==
  (call = "slidingCorrelation" /\ FiniteSamples /\ seriesA = seriesB) =>
    \A p \in DOMAIN result : result[p] # Null => result[p] = One

\* C5: slidingCorrelation(S, -S, window) holds exactly -1 at every position
\* where it is defined (stated for series of finite numbers)
C5_NegationClaim ==
  (/\ call = "slidingCorrelation"
   /\ FiniteSamples
   /\ Len(seriesB) = Len(seriesA)
   /\ \A p \in DOMAIN seriesA : seriesB[p] = FNeg(seriesA[p])) =>
    \A p \in DOMAIN result : result[p] # Null => result[p] = MinusOne

\* C6: at every index i >= W of slidingCorrelation whose trailing window
\* i-W..i-1 is constant in A or constant in B, the output is null (stated for
\* series of finite numbers)
C6_ConstantWindowClaim ==
  (call = "slidingCorrelation" /\ FiniteSamples) =>
    \A i \in ScannedIndices :
      LET lo == i - TruncToInt(EffWindow) + 1
      IN  (ConstantRun(seriesA, lo, i) \/ ConstantRun(seriesB, lo, i)) =>
            result[i + 1] = Null

\* C7: a position of slidingCorrelation whose trailing window holds a
\* non-finite input is null, and no output slot of slidingCorrelation,
\* smoothSeries or computeCointegrationZScore holds NaN or +/-Infinity
C7_NonFiniteClaim ==
  /\ call = "slidingCorrelation" =>
       \A i \in ScannedIndices :
         LET lo == i - TruncToInt(EffWindow) + 1
         IN  (NonFiniteIn(seriesA, lo, i) \/ NonFiniteIn(seriesB, lo, i)) =>
               result[i + 1] = Null
  /\ \A p \in DOMAIN result : result[p] = Null \/ IsFin(result[p])

\* C8: smoothSeries never converts an undefined input position into a defined
\* output: if values[i] is null then the output at i is null
C8_UndefinedStaysUndefined ==
  (call = "smoothSeries" /\ returned) =>
    \A p \in DOMAIN values : values[p] = Null => result[p] = Null

\* the effective radius max(floor(radius), 0) of the last call
EffRadius == FMax(FFloor(radius), Zero)

\* the last call was smoothSeries with a finite effective radius >= 1
SmoothedWithRadius ==
  call = "smoothSeries" /\ returned /\ IsFin(EffRadius) /\ FLe(One, EffRadius)

\* the positions (from 1) within the radius of p, clipped to the sequence
Neighbourhood(p) ==
  {q \in DOMAIN values :
     p - TruncToInt(EffRadius) <= q /\ q <= p + TruncToInt(EffRadius)}

C8_Witness ==
  /\ SmoothedWithRadius
  /\ \E p \in DOMAIN values :
       /\ values[p] = Null
       /\ result[p] = Null
       /\ \E q \in Neighbourhood(p) : IsFin(values[q]) /\ IsFin(result[q])

FiniteMean(vals, lo, hi) ==
  LET kept == SelectSeq(SubSeq(vals, lo, hi), LAMBDA v : IsFin(v))
  IN  IF kept = <<>> THEN Null ELSE FDiv(Sum(kept), FromInt(Len(kept)))

C11_RadiusZeroCopies ==
  (call = "smoothSeries" /\ EffRadius = Zero) =>
    /\ returned
    /\ Len(result) = Len(values)
    /\ \A p \in DOMAIN values : result[p] = values[p]

C11_Witness ==
  /\ call = "smoothSeries"
  /\ radius = MinusOne
  /\ values = <<Null, NaN, One, NaN, One>>
  /\ result = <<Null, NaN, One, NaN, One>>

\* the overlapping range min(len(A), len(B)) of the last call's two series
Overlap == IF Len(seriesA) <= Len(seriesB) THEN Len(seriesA) ELSE Len(seriesB)

\* the positions (from 1) of the overlapping range where both series hold a
\* finite number
FinitePairs == {p \in 1..Overlap : IsFin(seriesA[p]) /\ IsFin(seriesB[p])}

\* the regression computeCointegrationZScore fits for the last call's series
Regression == performLinearRegression(seriesA, seriesB)

\* C12: with fewer than 2 index pairs of finite values in the overlapping range
\* the regression is invalid, and computeCointegrationZScore returns
\* min(len(A), len(B)) nulls, for every window
C12_TooFewPairsAllUndefined ==
  (call = "computeCointegrationZScore" /\ Cardinality(FinitePairs) < 2) =>
    /\ ~Regression.valid
    /\ Len(result) = Overlap
    /\ \A p \in DOMAIN result : result[p] = Null

C12_Witness ==
  /\ call = "computeCointegrationZScore"
  /\ seriesA = <<MinusOne, One, MinusOne>>
  /\ seriesB = <<NaN, One, NaN>>
  /\ window = FromInt(2)
  /\ result = <<Null, Null, Null>>

\* the last call regressed a series on itself, and the series holds at least 2
\* finite values
SelfRegressed ==
  /\ call = "computeCointegrationZScore"
  /\ seriesA = seriesB
  /\ Cardinality(FinitePairs) >= 2

\* two finite values of s differ
NonConstant(s) ==
  \E p, q \in DOMAIN s : IsFin(s[p]) /\ IsFin(s[q]) /\ s[p] # s[q]

\* C13: computeCointegrationZScore(S, S, window) is null at every index, for
\* every series S with at least 2 finite values and every window
C13_SelfZScoreClaim ==
  SelfRegressed => \A p \in DOMAIN result : result[p] = Null

\* C14: the regression of a series S with at least 2 finite values on itself is
\* valid, with slope 1 and intercept 0 (stated for series that are not
\* constant: a constant series has no slope, and its denominator is exactly 0)
C14_SelfRegressionClaim ==
  (SelfRegressed /\ NonConstant(seriesA)) =>
    /\ Regression.valid
    /\ Regression.beta = One
    /\ Regression.alpha = Zero

\* C15: no window or radius makes a call fail: every call returns, and
\* slidingCorrelation(A, B, w) is slidingCorrelation(A, B, max(floor(w), 1)),
\* computeCointegrationZScore(A, B, w) is
\* computeCointegrationZScore(A, B, max(floor(w), 2))
C15_NoFailureClaim ==
  /\ call # "none" => returned
  /\ call = "slidingCorrelation" =>
       result = slidingCorrelation(seriesA, seriesB, FMax(FFloor(window), One))
  /\ call = "computeCointegrationZScore" =>
       result = computeCointegrationZScore(seriesA, seriesB,
                                           FMax(FFloor(window), FromInt(2)))

WindowOf(s, i) == SubSeq(s, i - TruncToInt(EffWindow) + 1, i)

\* the mean of the samples w, with the divisor W
PopMean(w) == FDiv(Sum(w), EffWindow)

\* the population covariance of the samples a and b, with the divisor W
PopCov(a, b) ==
  LET meanA == PopMean(a)
      meanB == PopMean(b)
  IN  FDiv(Sum([j \in DOMAIN a |-> FMul(FSub(a[j], meanA), FSub(b[j], meanB))]),
           EffWindow)

\* the population standard deviation of the samples w, with the divisor W
PopStd(w) ==
  LET mean == PopMean(w)
  IN  FSqrt(FDiv(Sum([j \in DOMAIN w |-> FSquare(FSub(w[j], mean))]), EffWindow))

\* C17: at every index i >= W = max(floor(window), 1) where both standard
\* deviations are not 0, slidingCorrelation holds cov / (stdA * stdB), the
\* means, the covariance and the population standard deviations (divisor W)
\* taken over exactly the W samples at the indices i-W..i-1 of A and of B
C17_PearsonOverTrailingWindow ==
  call = "slidingCorrelation" =>
    \A i \in ScannedIndices :
      LET a == WindowOf(seriesA, i)
          b == WindowOf(seriesB, i)
          stdA == PopStd(a)
          stdB == PopStd(b)
      IN  (stdA # Zero /\ stdB # Zero) =>
            result[i + 1] = FDiv(PopCov(a, b), FMul(stdA, stdB))

C17_Witness ==
  /\ call = "slidingCorrelation"
  /\ window = FromInt(3)
  /\ seriesA = <<One, Tenth, Tenth, One>>
  /\ seriesB = <<Tenth, Tenth, One, Tenth>>
  /\ IsFin(result[4])
  /\ result[4] =
       FDiv(PopCov(<<One, Tenth, Tenth>>, <<Tenth, Tenth, One>>),
            FMul(PopStd(<<One, Tenth, Tenth>>), PopStd(<<Tenth, Tenth, One>>)))

\* s with +Infinity at every position (from 1) outside lo..hi
Poisoned(s, lo, hi) ==
  [p \in DOMAIN s |-> IF lo <= p /\ p <= hi THEN s[p] ELSE PInf]

\* C18: the output of slidingCorrelation at an index i >= W depends only on the
\* samples of A and of B at the indices i-W..i-1: two series of the same
\* lengths that agree with A and B there, and differ at the index i, after it,
\* before i-W and beyond the overlapping prefix, give the same output at i
C18_OnlyTheTrailingWindow ==
  call = "slidingCorrelation" =>
    \A i \in ScannedIndices :
      LET lo == i - TruncToInt(EffWindow) + 1
      IN  result[i + 1] =
            correlationAt(Poisoned(seriesA, lo, i), Poisoned(seriesB, lo, i),
                          safeWindow(window), i)

C18_Witness ==
  /\ call = "slidingCorrelation"
  /\ window = FromInt(2)
  /\ seriesA = <<One, Tenth, One, Tenth>>
  /\ seriesB = <<Tenth, One, Tenth>>
  /\ result[1] = Null
  /\ result[2] = Null
  /\ IsFin(result[3])

\* the positions (from 1) of the finite pairs, in order
KeptPositions ==
  SelectSeq([p \in 1..Overlap |-> p], LAMBDA p : p \in FinitePairs)

\* the values of A and of B in the finite pairs
KeptA == [j \in DOMAIN KeptPositions |-> seriesA[KeptPositions[j]]]

KeptB == [j \in DOMAIN KeptPositions |-> seriesB[KeptPositions[j]]]

\* the least-squares fit of the values a on the values b (n = Len(a) pairs):
\* slope 0 and intercept mean(a) when n * sum(b^2) - (sum b)^2 is exactly 0,
\* otherwise slope (n * sum(ab) - sum(a) * sum(b)) / (n * sum(b^2) - (sum b)^2)
\* and intercept (sum(a) - slope * sum(b)) / n
LeastSquares(a, b) ==
  LET n == FromInt(Len(a))
      sumA == Sum(a)
      sumB == Sum(b)
      sumAB == Sum([j \in DOMAIN a |-> FMul(a[j], b[j])])
      sumBB == Sum([j \in DOMAIN b |-> FMul(b[j], b[j])])
      den == FSub(FMul(n, sumBB), FMul(sumB, sumB))
      slope == FDiv(FSub(FMul(n, sumAB), FMul(sumA, sumB)), den)
  IN  IF den = Zero THEN [intercept |-> FDiv(sumA, n), slope |-> Zero]
      ELSE [intercept |-> FDiv(FSub(sumA, FMul(slope, sumB)), n), slope |-> slope]

\* the residuals a - (intercept + slope * b) of the one fit, null where A or B
\* is not finite
OneFitResiduals(fit) ==
  [p \in 1..Overlap |->
     IF IsFin(seriesA[p]) /\ IsFin(seriesB[p])
       THEN FSub(seriesA[p], FAdd(fit.intercept, FMul(fit.slope, seriesB[p])))
     ELSE Null]

\* C19: performLinearRegression fits once over the n >= 2 pairs of finite
\* values (the others are left out of n and of every sum): slope 0 and
\* intercept mean(A), valid, when n * sum(b^2) - (sum b)^2 is exactly 0;
\* otherwise slope (n * sum(ab) - sum(a) * sum(b)) / (n * sum(b^2) - (sum b)^2)
\* and intercept (sum(a) - slope * sum(b)) / n; the z-scores at every index
\* are those of the residuals of this one (intercept, slope)
C19_OneLeastSquaresFit ==
  (call = "computeCointegrationZScore" /\ Cardinality(FinitePairs) >= 2) =>
    LET regression == Regression
        fit == LeastSquares(KeptA, KeptB)
        res == OneFitResiduals(fit)
        W == zSafeWindow(window)
    IN  /\ regression.valid
        /\ regression.beta = fit.slope
        /\ regression.alpha = fit.intercept
        /\ \A p \in DOMAIN result : result[p] = zscoreAt(res, W, p - 1)

C19_Witness ==
  /\ call = "computeCointegrationZScore"
  /\ seriesA = <<One, MinusOne, MinusOne>>
  /\ seriesB = <<MinusOne, NaN, One>>
  /\ Regression.valid
  /\ Regression.beta = MinusOne
  /\ Regression.alpha = Zero

\* the effective z-score window max(floor(window), 2) of the last call
EffZWindow == FMax(FFloor(window), FromInt(2))

\* C20: with W = max(floor(window), 2), computeCointegrationZScore holds null
\* at every index i < W-1 and at every index where A[i] or B[i] is not a
\* finite number
C20_WarmUpAndNonFiniteUndefined ==
  call = "computeCointegrationZScore" =>
    \A p \in DOMAIN result :
      (\/ FLt(FromInt(p - 1), FSub(EffZWindow, One))
       \/ ~IsFin(seriesA[p])
       \/ ~IsFin(seriesB[p])) => result[p] = Null

C20_Witness ==
  /\ call = "computeCointegrationZScore"
  /\ window = FDiv(FromInt(5), FromInt(2))
  /\ seriesA = <<MinusOne, One, One>>
  /\ seriesB = <<One, One, NaN>>
  /\ result = <<Null, One, Null>>

\* the finite residuals among res at the indices lo..i (from 0), in order
Collected(res, lo, i) == SelectSeq(SubSeq(res, lo + 1, i + 1), LAMBDA v : IsFin(v))

\* the z-score of the residual cur against the collected residuals c: null
\* with fewer than 2 of them or a population standard deviation that is 0 or
\* not finite
ZScoreOver(c, cur) ==
  IF Len(c) < 2 THEN Null
  ELSE LET n == FromInt(Len(c))
           mean == FDiv(Sum(c), n)
           sd == FSqrt(FDiv(Sum([j \in DOMAIN c |-> FSquare(FSub(c[j], mean))]), n))
       IN  IF sd = Zero \/ ~IsFin(sd) THEN Null ELSE FDiv(FSub(cur, mean), sd)

\* C21: for a valid regression and an index i >= W-1 whose residual is not
\* null, computeCointegrationZScore collects the finite residuals at the
\* indices max(0, i-(W-1))..i, the index i included; the output is null with
\* fewer than 2 collected or with a population standard deviation (divisor
\* the number collected) that is 0 or not finite, and otherwise
\* (residual[i] - mean) / std over the collected residuals
C21_ZScoreOverTrailingResiduals ==
  (call = "computeCointegrationZScore" /\ IsFin(EffZWindow)) =>
    LET regression == Regression
        res == residuals(seriesA, seriesB, regression)
        W == TruncToInt(EffZWindow)
    IN  regression.valid =>
          \A i \in 0..(Len(result) - 1) :
            (i >= W - 1 /\ res[i + 1] # Null) =>
              result[i + 1] =
                ZScoreOver(Collected(res, Max(0, i - (W - 1)), i), res[i + 1])

C21_Witness ==
  /\ call = "computeCointegrationZScore"
  /\ window = FromInt(2)
  /\ seriesA = <<One, MinusOne, One>>
  /\ seriesB = <<One, One, MinusOne>>
  /\ result = <<Null, MinusOne, One>>

\* C22: the clamp of the window's start to 0 never takes effect: an index i
\* that passes the test i < safeWindow - 1 has i - (W-1) as its start, which
\* Math.max(0, ...) leaves as it is, and a z-score is produced only at an
\* index i >= W-1, from the residuals at exactly the W indices i-(W-1)..i
C22_StartNeverClamped ==
  call = "computeCointegrationZScore" =>
    LET regression == Regression
        res == residuals(seriesA, seriesB, regression)
        W == EffZWindow
    IN  \A i \in 0..(Len(result) - 1) :
          /\ ~FLt(FromInt(i), FSub(W, One)) =>
               FMax(Zero, FSub(FromInt(i), FSub(W, One))) =
                 FSub(FromInt(i), FSub(W, One))
          /\ result[i + 1] # Null =>
               /\ IsFin(W)
               /\ i - (TruncToInt(W) - 1) >= 0
               /\ result[i + 1] =
                    ZScoreOver(Collected(res, i - (TruncToInt(W) - 1), i), res[i + 1])

C22_Witness ==
  /\ call = "computeCointegrationZScore"
  /\ window = FromInt(3)
  /\ seriesA = <<One, MinusOne, One>>
  /\ seriesB = <<One, One, MinusOne>>
  /\ result[1] = Null
  /\ result[2] = Null
  /\ IsFin(result[3])

\* z * z <= k for a finite z and a small natural k, compared exactly
SquareAtMost(z, k) ==
  IF z.m = 0 THEN TRUE
  ELSE IF BitLen(Abs(z.m)) + z.e > 8 THEN FALSE
  ELSE IF z.e >= 0 THEN z.m * z.m * Pow2(2 * z.e) <= k
  ELSE IF 0 - z.e > 12 THEN k >= 1
  ELSE z.m * z.m <= k * Pow2(2 * (0 - z.e))

\* C23: a z-score z produced at an index whose window collected n finite
\* residuals has z^2 <= n-1 <= W-1, and with an effective window of 2 it is
\* exactly 1 or -1
C23_ZScoreBoundClaim ==
  (call = "computeCointegrationZScore" /\ IsFin(EffZWindow)) =>
    LET res == residuals(seriesA, seriesB, Regression)
        W == TruncToInt(EffZWindow)
    IN  \A i \in 0..(Len(result) - 1) :
          result[i + 1] # Null =>
            LET n == Len(Collected(res, Max(0, i - (W - 1)), i))
            IN  /\ IsFin(result[i + 1])
                /\ SquareAtMost(result[i + 1], n - 1)
                /\ n - 1 <= W - 1
                /\ W = 2 => result[i + 1] \in {One, MinusOne}

\* x lies between two finite values of vals at positions of the set near
BetweenFiniteValues(x, vals, near) ==
  /\ \E q \in near : IsFin(vals[q]) /\ FLe(vals[q], x)
  /\ \E q \in near : IsFin(vals[q]) /\ FLe(x, vals[q])

\* C24: with finite inputs that all lie in [-1, 1], every defined output of
\* smoothSeries at a position idx lies between the least and the greatest of
\* the defined, finite inputs at the positions idx-R..idx+R, and so in [-1, 1]
C24_SmoothedWithinInputsClaim ==
  (SmoothedWithRadius /\ \A q \in DOMAIN values : IsFin(values[q]) => InUnitRange(values[q])) =>
    \A p \in DOMAIN result :
      result[p] # Null =>
        /\ BetweenFiniteValues(result[p], values, Neighbourhood(p))
        /\ InUnitRange(result[p])

\* the whole range
FullRange == <<Zero, One>>

\* C25: after any sequence of mouse down / move / up / leave events and of
\* Zoom in, Zoom out and Reset zoom clicks,
\* 0 <= viewRange[0] <= viewRange[1] <= 1
C25_ViewRangeOrderedInUnit ==
  /\ FLe(Zero, viewRange[1])
  /\ FLe(viewRange[1], viewRange[2])
  /\ FLe(viewRange[2], One)

\* a zoomed range that ends at 1 and that a click of Zoom out has to shift
\* back inside [0, 1], a drag having been finished
C25_Witness ==
  /\ FLt(Zero, viewRange[1])
  /\ FLt(viewRange[1], viewRange[2])
  /\ viewRange[2] = One
  /\ applyZoomUnshifted(viewRange, ZoomOutFactor, minViewSpan(timestampsLength))[2] # One
  /\ ~isSelecting
  /\ selection.start = Null

\* C26: while isSelecting is true, selection.start and selection.end are both
\* non-null
C26_SelectingHasSelectionClaim ==
  isSelecting => (selection.start # Null /\ selection.end # Null)

\* the horizontal extent |end - start| of an active selection
Extent(sel) == FAbs(FSub(sel.end, sel.start))

\* C27: a mouse up or a mouse leave changes viewRange only when a selection is
\* active and its extent |end - start| is at least 4 pixels; finishing with a
\* smaller extent, or with no active selection, leaves viewRange as it was
C27_ShortDragKeepsView ==
  [][(viewRange' # viewRange /\ (MouseUp \/ MouseLeave)) =>
       (selectionActive(selection) /\ FLe(FromInt(4), Extent(selection)))]_vars

\* a selection of less than 4 pixels over a zoomed range, which the mouse up
\* or mouse leave that finishes it leaves as it is
C27_Witness ==
  /\ isSelecting
  /\ selectionActive(selection)
  /\ FLt(Extent(selection), FromInt(4))
  /\ viewRange # FullRange
  /\ finishSelection(viewRange, selection, selection.width).viewRange = viewRange

\* x * 2^(-q) for a finite x whose exponent is at least q
Scaled(x, q) == x.m * Pow2(x.e - q)

\* hi - lo = d, compared exactly
ExactlyApart(lo, hi, d) ==
  LET q == Min(Min(lo.e, hi.e), d.e)
  IN  Scaled(hi, q) - Scaled(lo, q) = Scaled(d, q)

\* |(hi - lo) - d| <= Number.EPSILON, compared exactly
ApartWithinEpsilon(lo, hi, d) ==
  LET q == Min(Min(Min(lo.e, hi.e), d.e), EPSILON.e)
  IN  Abs(Scaled(hi, q) - Scaled(lo, q) - Scaled(d, q)) <= Scaled(EPSILON, q)

\* clamp(max(currentSpan, minViewSpan) * factor, minViewSpan, 1)
TargetSpan(view, factor) ==
  LET mvs == minViewSpan(timestampsLength)
  IN  FMin(FMax(FMul(FMax(FSub(view[2], view[1]), mvs), factor), mvs), One)

\* the range applyZoom(factor) makes of the current one
Zoomed(factor) == applyZoom(viewRange, factor, minViewSpan(timestampsLength))

\* the factors of the zoom buttons that are enabled
ClickableFactors ==
  {factor \in {ZoomOutFactor, ZoomInFactor} :
     \/ factor = ZoomOutFactor /\ canZoomOut(viewRange)
     \/ factor = ZoomInFactor /\ canZoomIn(viewRange, minViewSpan(timestampsLength))}

\* C28 as stated: each applyZoom step yields a range whose span is exactly
\* clamp(max(currentSpan, minViewSpan) * factor, minViewSpan, 1)
C28_ExactSpanClaim ==
  \A factor \in ClickableFactors :
    ExactlyApart(Zoomed(factor)[1], Zoomed(factor)[2], TargetSpan(viewRange, factor))

\* C28: from any reachable view range, Zoom out clicks with no other event in
\* between reach viewRange = [0, 1] after finitely many of them (a click of the
\* enabled button always changes the range, and once only Zoom out clicks
\* happen the range becomes [0, 1] for good), and there Zoom out and Reset
\* zoom are disabled; each applyZoom step yields a range whose span is
\* clamp(max(currentSpan, minViewSpan) * factor, minViewSpan, 1) to within
\* Number.EPSILON, also when the range is shifted to stay inside [0, 1]
C28_ZoomOutReachesFullRange ==
  /\ (<>[][ZoomOut]_vars) => <>[](viewRange = FullRange)
  /\ [](canZoomOut(viewRange) => Zoomed(ZoomOutFactor) # viewRange)
  /\ [](viewRange = FullRange => (~ENABLED ZoomOut /\ ~ENABLED ResetZoom))
  /\ [](\A factor \in {ZoomOutFactor, ZoomInFactor} :
         ApartWithinEpsilon(Zoomed(factor)[1], Zoomed(factor)[2],
                            TargetSpan(viewRange, factor)))

\* a range at the lower end, wider than half, from which one more click of
\* Zoom out reaches the whole range
C28_Witness ==
  /\ viewRange[1] = Zero
  /\ FLt(Half, viewRange[2])
  /\ FLt(viewRange[2], One)
  /\ Zoomed(ZoomOutFactor) = FullRange

=============================================================================
